---- MODULE Spec2Model ----
(***************************************************************************)
(* Model of the ingestion pipeline of the Chronologicon engine:            *)
(* startIngestionJob / processFile (jobs/ingestionProcessor.js) running    *)
(* against the PostgreSQL tables historical_events, staging_events and     *)
(* ingestion_jobs.  Every job is one asynchronous processFile call; one    *)
(* action of the model is one awaited statement of processFile together    *)
(* with the synchronous code that follows it up to the next await, so the  *)
(* jobs interleave exactly at their await points.                          *)
(***************************************************************************)
EXTENDS Integers, Sequences, FiniteSets, TLC

(* ------------------------------ bounds --------------------------------- *)

\* Number of distinct event UUIDs that occur in the input files.
NumIds == 4

\* Number of lines of all the files submitted to concurrent jobs, together.
MaxLines == 3

\* Number of lines of the file of a single job (long enough for a
\* forward-reference chain of depth 3).
MaxChainLines == 4

\* Number of lines of all the submitted files in the liveness check.
MaxLiveLines == 2

EventIds == 1..NumIds

\* The most pipe-separated parts of a raw line handed to the parser alone.
MaxParts == 8

\* The last instant of the stores handed to the analytics, in ticks of 20 s.
MaxTime == 9

\* The event ids of the stores handed to the hierarchy operations.
MaxNodes == 3

\* The lines of the file whose dates vary.
MaxDatedLines == 3

\* The largest magnitude of a page or limit parameter.
MaxPage == 5

\* The ingestion jobs (one per submitted file).
Jobs == {"j1", "j2"}

(* ---------------------------- input lines ------------------------------ *)

\* A raw line, by what line.split('|') and the validators see of it:
\*   nparts   number of pipe-separated parts
\*   event_id 0 when the text is not UUID syntax, else the UUID
\*   parent   0 for the literal NULL (any case), -1 for text that is not a
\*            UUID, -2 for the empty string, else the UUID
\*   start, end   -1 when new Date() gives Invalid Date, else the instant
\*            in half minutes
RawLine(n, id, s, e, p) ==
    [nparts |-> n, event_id |-> id, start |-> s, end |-> e, parent |-> p]

\* Parent references of the input files: the events form the chain
\* 1 <- 2 <- ... <- NumIds, so that the files contain forward references of
\* every depth < NumIds; events 1 and 2 also occur as roots, so that one
\* UUID occurs with different attributes.
ParentChoices(id) == IF id = 1 THEN {0} ELSE IF id = 2 THEN {0, 1} ELSE {id - 1}

ValidLines ==
    UNION { { RawLine(7, id, 0, 3, p) : p \in ParentChoices(id) } : id \in EventIds }

BadLines ==
    { RawLine(6, 1, 0, 3, 0),      \* a field is missing
      RawLine(7, 1, 0, 3, -2) }    \* empty parent field

InputLines == ValidLines \cup BadLines

(* ------------------------------- parser -------------------------------- *)

\* Variant: Math.floor in place of Math.round.
DurationMinutesFloor(s, e) == (e - s) \div 2

\* Math.round((endDate - startDate) / (1000 * 60)) on half-minute instants:
\* Math.round rounds a half up.
DurationMinutes(s, e) == (e - s + 1) \div 2

\* The row bound to $1..$8 of the INSERT (queryParams), without the text
\* columns.
Row(id, p, s, e) ==
    [event_id |-> id, parent_event_id |-> p, start_date |-> s, end_date |-> e,
     duration_minutes |-> DurationMinutes(s, e)]

NoParams == [event_id |-> 0, parent_event_id |-> 0, start_date |-> 0,
             end_date |-> 0, duration_minutes |-> 0]

\* The validation of one line, in the order of the code.
ParseLine(line) ==
    IF line.nparts # 7
      THEN [ok |-> FALSE, msg |-> "Invalid number of fields", row |-> NoParams]
    ELSE IF line.event_id = 0
      THEN [ok |-> FALSE, msg |-> "Invalid UUID format for event_id", row |-> NoParams]
    ELSE IF line.parent = -1
      THEN [ok |-> FALSE, msg |-> "Invalid UUID format for parent_event_id", row |-> NoParams]
    ELSE IF line.start = -1 \/ line.end = -1
      THEN [ok |-> FALSE, msg |-> "Invalid date format", row |-> NoParams]
    ELSE IF line.start > line.end
      THEN [ok |-> FALSE, msg |-> "start_date cannot be after end_date", row |-> NoParams]
    ELSE [ok |-> TRUE, msg |-> "",
          row |-> Row(line.event_id, line.parent, line.start, line.end)]

(* ------------------------------- state --------------------------------- *)

VARIABLES
    hist,               \* table historical_events: a set of rows
    staging,            \* table staging_events: a set of rows
    job,                \* table ingestion_jobs: job id -> record
    pc,                 \* the await each processFile call is suspended at
    stream,             \* state of the job's fileStream
    hasUpdated,         \* hasUpdatedStatusToProcessing
    lineNumber,
    localErrorCount,
    localSuccessCount,
    queryParams,        \* kept while a later statement can still read it
    pending,            \* the error caught and not yet recorded
    unread,             \* lines of the submitted files not read yet
    deferred,           \* history: the rows each job sent to staging_events
    concurrent,         \* history: two jobs have been in flight together
    query,              \* the call of a stateless operation and its input
    answer              \* what the call returned

\* The state of the ingestion pipeline.
ingest == <<hist, staging, job, pc, stream, hasUpdated, lineNumber,
            localErrorCount, localSuccessCount, queryParams, pending, unread,
            deferred, concurrent>>

\* The call of a stateless operation (parser, analytics, timeline).
call == <<query, answer>>

vars == <<ingest, call>>

NoQuery == [op |-> "none"]

NoAnswer == [op |-> "none"]

Ids(rows) == { r.event_id : r \in rows }

NoJob == [status |-> "NONE", total_lines |-> 0, processed_lines |-> 0,
          error_lines |-> 0, errors |-> <<>>, end_time |-> FALSE]

\* INSERT INTO ingestion_jobs (status, file_path) VALUES ('PENDING', $1),
\* the other columns at their defaults.
NewJob == [status |-> "PENDING", total_lines |-> 0, processed_lines |-> 0,
           error_lines |-> 0, errors |-> <<>>, end_time |-> FALSE]

\* Variant: the entry without the Fatal Error prefix.
FatalErrorUntagged(m) == [tag |-> "Line", line |-> 0, msg |-> m]

LineError(n, m) == [tag |-> "Line", line |-> n, msg |-> m]
FatalError(m) == [tag |-> "Fatal Error", line |-> 0, msg |-> m]

\* Empty tables, no request made yet, n lines in the files to be submitted.
Start(n) ==
    /\ unread = n
    /\ hist = {}
    /\ staging = {}
    /\ job = [j \in Jobs |-> NoJob]
    /\ pc = [j \in Jobs |-> "idle"]
    /\ stream = [j \in Jobs |-> "none"]
    /\ hasUpdated = [j \in Jobs |-> FALSE]
    /\ lineNumber = [j \in Jobs |-> 0]
    /\ localErrorCount = [j \in Jobs |-> 0]
    /\ localSuccessCount = [j \in Jobs |-> 0]
    /\ queryParams = [j \in Jobs |-> NoParams]
    /\ pending = [j \in Jobs |-> ""]
    /\ deferred = [j \in Jobs |-> {}]
    /\ concurrent = FALSE

\* No stateless operation is being called.
NoCall == query = NoQuery /\ answer = NoAnswer

Init == Start(MaxLines) /\ NoCall

InitChain == Start(MaxChainLines) /\ NoCall

InitLive == Start(MaxLiveLines) /\ NoCall

InFlight(j) == pc[j] \notin {"idle", "done"}

(* ------------------------------ actions -------------------------------- *)

\* startIngestionJob: the job row is created PENDING and processFile is
\* called without being awaited.
StartJob(j) ==
    /\ pc[j] = "idle"
    /\ job' = [job EXCEPT ![j] = NewJob]
    /\ pc' = [pc EXCEPT ![j] = "mark"]
    /\ concurrent' = (concurrent \/ \E k \in Jobs \ {j} : InFlight(k))
    /\ UNCHANGED <<hist, staging, stream, hasUpdated, lineNumber,
                   localErrorCount, localSuccessCount, queryParams, pending, unread, deferred>>

\* A request that passed the controller's checks.
StartIngestionJob(j) == StartJob(j) /\ UNCHANGED call

\* UPDATE ingestion_jobs SET status = 'PROCESSING'; then the stream and the
\* readline interface are created (the file is opened lazily, by the first
\* read).  The statement can be rejected by the database, which is the only
\* way into the catch block with hasUpdatedStatusToProcessing still false.
MarkProcessing(j) ==
    /\ pc[j] = "mark"
    /\ UNCHANGED call
    /\ \E ok \in BOOLEAN :
         IF ok
           THEN /\ job' = [job EXCEPT ![j].status = "PROCESSING"]
                /\ hasUpdated' = [hasUpdated EXCEPT ![j] = TRUE]
                /\ stream' = [stream EXCEPT ![j] = "unopened"]
                /\ pc' = [pc EXCEPT ![j] = "read"]
                /\ UNCHANGED pending
           ELSE /\ pending' = [pending EXCEPT ![j] = "database unavailable"]
                /\ pc' = [pc EXCEPT ![j] = "catch"]
                /\ UNCHANGED <<job, hasUpdated, stream>>
    /\ UNCHANGED <<hist, staging, lineNumber, localErrorCount,
                   localSuccessCount, queryParams, concurrent, unread, deferred>>

\* for await (const line of rl): the next line arrives and is validated.
ReadLineFrom(j, lines) ==
    /\ pc[j] = "read"
    /\ UNCHANGED call
    /\ unread > 0
    /\ unread' = unread - 1
    /\ \E line \in lines :
         LET p == ParseLine(line) IN
         /\ lineNumber' = [lineNumber EXCEPT ![j] = @ + 1]
         /\ stream' = [stream EXCEPT ![j] = "open"]
         /\ IF p.ok
              THEN /\ queryParams' = [queryParams EXCEPT ![j] = p.row]
                   /\ pc' = [pc EXCEPT ![j] = "insert"]
                   /\ UNCHANGED <<localErrorCount, pending>>
              ELSE /\ localErrorCount' = [localErrorCount EXCEPT ![j] = @ + 1]
                   /\ pending' = [pending EXCEPT ![j] = p.msg]
                   /\ pc' = [pc EXCEPT ![j] = "lineError"]
                   /\ UNCHANGED queryParams
    /\ UNCHANGED <<hist, staging, job, hasUpdated, localSuccessCount, deferred,
                   concurrent>>

ReadLine(j) == ReadLineFrom(j, InputLines)

\* for await: the stream ends.
EndOfFile(j) ==
    /\ pc[j] = "read"
    /\ UNCHANGED call
    /\ stream' = [stream EXCEPT ![j] = "closed"]
    /\ pc' = [pc EXCEPT ![j] = "promote"]
    /\ UNCHANGED <<hist, staging, job, hasUpdated, lineNumber, localErrorCount,
                   localSuccessCount, queryParams, pending, concurrent, unread, deferred>>

\* for await: the stream emits an error (the file cannot be opened, or a
\* read fails); the iterator throws into the outer catch.  (A runtime that
\* does not forward the stream's error to the iterator ends the process
\* instead; the model covers the process that keeps running.)
StreamError(j) ==
    /\ pc[j] = "read"
    /\ UNCHANGED call
    /\ stream' = [stream EXCEPT ![j] = "failed"]
    /\ pending' = [pending EXCEPT ![j] = "stream error"]
    /\ pc' = [pc EXCEPT ![j] = "catch"]
    /\ UNCHANGED <<hist, staging, job, hasUpdated, lineNumber, localErrorCount,
                   localSuccessCount, queryParams, concurrent, unread, deferred>>

\* Variant: the table without the constraint fk_parent_event.
ForeignKeyUnchecked(r, table) == TRUE

\* The foreign key fk_parent_event, checked at the end of the statement:
\* the parent is null, or a row of the table after the insert.
ForeignKeyHolds(r, table) ==
    r.parent_event_id = 0 \/ r.parent_event_id \in Ids(table \cup {r})

\* Variant: ON CONFLICT (event_id) DO UPDATE (the new row replaces the old).
InsertHistoricalUpsert(table, r) ==
    { x \in table : x.event_id # r.event_id } \cup {r}

\* INSERT INTO historical_events ... ON CONFLICT (event_id) DO NOTHING
InsertHistorical(table, r) ==
    IF r.event_id \in Ids(table) THEN table ELSE table \cup {r}

\* The INSERT of the line loop and what follows its outcome.
InsertEvent(j) ==
    /\ pc[j] = "insert"
    /\ UNCHANGED call
    /\ LET r == queryParams[j] IN
       IF r.parent_event_id = -2
         THEN \* '' is not a uuid: the statement is rejected (22P02)
              /\ localErrorCount' = [localErrorCount EXCEPT ![j] = @ + 1]
              /\ pending' = [pending EXCEPT ![j] = "invalid input syntax for type uuid"]
              /\ queryParams' = [queryParams EXCEPT ![j] = NoParams]
              /\ pc' = [pc EXCEPT ![j] = "lineError"]
              /\ UNCHANGED <<hist, localSuccessCount>>
       ELSE IF r.event_id \notin Ids(hist) /\ ~ForeignKeyHolds(r, hist)
         THEN \* error.code == FK_VIOLATION_CODE
              /\ localSuccessCount' = [localSuccessCount EXCEPT ![j] = @ + 1]
              /\ pc' = [pc EXCEPT ![j] = "stage"]
              /\ UNCHANGED <<hist, localErrorCount, pending, queryParams>>
         ELSE /\ hist' = InsertHistorical(hist, r)
              /\ localSuccessCount' = [localSuccessCount EXCEPT ![j] = @ + 1]
              /\ pc' = [pc EXCEPT ![j] = "update"]
              /\ UNCHANGED <<localErrorCount, pending, queryParams>>
    /\ UNCHANGED <<staging, job, stream, hasUpdated, lineNumber, concurrent, unread, deferred>>

\* UPDATE ingestion_jobs SET processed_lines = $1, total_lines = $2
UpdateJob(j) ==
    /\ pc[j] = "update"
    /\ UNCHANGED call
    /\ job' = [job EXCEPT ![j].processed_lines = localSuccessCount[j],
                          ![j].total_lines = lineNumber[j]]
    /\ queryParams' = [queryParams EXCEPT ![j] = NoParams]
    /\ pc' = [pc EXCEPT ![j] = "read"]
    /\ UNCHANGED <<hist, staging, stream, hasUpdated, lineNumber,
                   localErrorCount, localSuccessCount, pending, concurrent, unread, deferred>>

\* INSERT INTO staging_events ... ON CONFLICT (event_id) DO NOTHING
InsertStaging(table, r) ==
    IF r.event_id \in Ids(table) THEN table ELSE table \cup {r}

StageEvent(j) ==
    /\ pc[j] = "stage"
    /\ UNCHANGED call
    /\ staging' = InsertStaging(staging, queryParams[j])
    /\ deferred' = [deferred EXCEPT ![j] = @ \cup {queryParams[j]}]
    /\ queryParams' = [queryParams EXCEPT ![j] = NoParams]
    /\ pc' = [pc EXCEPT ![j] = "read"]
    /\ UNCHANGED <<hist, job, stream, hasUpdated, lineNumber, localErrorCount,
                   localSuccessCount, pending, concurrent, unread>>

\* Variant: SET error_lines = $1 with the line number as parameter.
RecordErrorLineNumber(rec, e) ==
    [rec EXCEPT !.error_lines = e.line, !.errors = Append(@, e)]

\* Variant: errors = $1::jsonb || errors (the new entry is put first).
RecordErrorPrepended(rec, e) ==
    [rec EXCEPT !.error_lines = @ + 1, !.errors = <<e>> \o @]

\* UPDATE ingestion_jobs SET error_lines = error_lines + 1,
\*                           errors = errors || $1::jsonb
RecordError(rec, e) ==
    [rec EXCEPT !.error_lines = @ + 1, !.errors = Append(@, e)]

RecordLineError(j) ==
    /\ pc[j] = "lineError"
    /\ UNCHANGED call
    /\ job' = [job EXCEPT ![j] = RecordError(@, LineError(lineNumber[j], pending[j]))]
    /\ pending' = [pending EXCEPT ![j] = ""]
    /\ pc' = [pc EXCEPT ![j] = "read"]
    /\ UNCHANGED <<hist, staging, stream, hasUpdated, lineNumber,
                   localErrorCount, localSuccessCount, queryParams, concurrent, unread, deferred>>

\* Variant: first_part joined ON h.event_id = s.event_id.
FirstPartJoinOnId(h, s) == { r \in s : r.event_id \in Ids(h) }

\* deferredQuery, CTE first_part: staged rows whose parent is committed.
FirstPart(h, s) == { r \in s : r.parent_event_id \in Ids(h) }

\* deferredQuery, CTE second_part: staged rows whose parent is in first_part.
SecondPart(h, s) == { r \in s : r.parent_event_id \in Ids(FirstPart(h, s)) }

\* The INSERT ... SELECT first_part UNION ALL second_part has no ON CONFLICT:
\* it raises unique_violation when a selected row's key is already in the
\* table or is selected twice.
DuplicateKey(h, s) ==
    \/ \E r \in FirstPart(h, s) \cup SecondPart(h, s) : r.event_id \in Ids(h)
    \/ FirstPart(h, s) \cap SecondPart(h, s) # {}

Promote(j) ==
    /\ pc[j] = "promote"
    /\ UNCHANGED call
    /\ IF DuplicateKey(hist, staging)
         THEN /\ pending' = [pending EXCEPT ![j] = "duplicate key value"]
              /\ pc' = [pc EXCEPT ![j] = "catch"]
              /\ UNCHANGED hist
         ELSE /\ hist' = hist \cup FirstPart(hist, staging) \cup SecondPart(hist, staging)
              /\ pc' = [pc EXCEPT ![j] = "final"]
              /\ UNCHANGED pending
    /\ UNCHANGED <<staging, job, stream, hasUpdated, lineNumber, localErrorCount,
                   localSuccessCount, queryParams, concurrent, unread, deferred>>

\* Variant: processed_lines receives the line count.
FinalUpdateEveryLineProcessed(j) ==
    /\ pc[j] = "final"
    /\ UNCHANGED call
    /\ job' = [job EXCEPT ![j].status = "COMPLETED",
                          ![j].total_lines = lineNumber[j],
                          ![j].processed_lines = lineNumber[j],
                          ![j].end_time = TRUE]
    /\ pc' = [pc EXCEPT ![j] = "done"]
    /\ UNCHANGED <<hist, staging, stream, hasUpdated, lineNumber, localErrorCount,
                   localSuccessCount, queryParams, pending, concurrent, unread, deferred>>

\* finalUpdateQuery
FinalUpdate(j) ==
    /\ pc[j] = "final"
    /\ UNCHANGED call
    /\ job' = [job EXCEPT ![j].status = "COMPLETED",
                          ![j].total_lines = lineNumber[j],
                          ![j].processed_lines = localSuccessCount[j],
                          ![j].end_time = TRUE]
    /\ pc' = [pc EXCEPT ![j] = "done"]
    /\ UNCHANGED <<hist, staging, stream, hasUpdated, lineNumber, localErrorCount,
                   localSuccessCount, queryParams, pending, concurrent, unread, deferred>>

\* Variant: the catch block always writes FAILED.
FailStatusAlwaysFailed(updated) == "FAILED"

\* Variant: the two branches of the conditional are swapped.
FailStatusSwapped(updated) == IF updated THEN "PENDING" ELSE "FAILED"

\* const status = hasUpdatedStatusToProcessing ? 'FAILED' : 'PENDING'
FailStatus(updated) == IF updated THEN "FAILED" ELSE "PENDING"

\* failUpdateQuery, in the outer catch
FailUpdate(j) ==
    /\ pc[j] = "catch"
    /\ UNCHANGED call
    /\ job' = [job EXCEPT ![j].status = FailStatus(hasUpdated[j]),
                          ![j].errors = Append(@, FatalError(pending[j])),
                          ![j].end_time = TRUE]
    /\ pc' = [pc EXCEPT ![j] = "done"]
    /\ UNCHANGED <<hist, staging, stream, hasUpdated, lineNumber, localErrorCount,
                   localSuccessCount, queryParams, pending, concurrent, unread, deferred>>

\* One step of the processFile call of job j.
ProcessFile(j) ==
    \/ MarkProcessing(j)
    \/ ReadLine(j)
    \/ EndOfFile(j)
    \/ StreamError(j)
    \/ InsertEvent(j)
    \/ UpdateJob(j)
    \/ StageEvent(j)
    \/ RecordLineError(j)
    \/ Promote(j)
    \/ FinalUpdate(j)
    \/ FailUpdate(j)

\* Concurrent jobs over one store.
Next == \E j \in Jobs : StartIngestionJob(j) \/ ProcessFile(j)

Spec == Init /\ [][Next]_vars

\* A single job over a store that starts empty.
NextChain == StartIngestionJob("j1") \/ ProcessFile("j1")

ChainSpec == InitChain /\ [][NextChain]_vars

\* The event loop resumes every processFile call whose await has settled.
LiveSpec == InitLive /\ [][Next]_vars /\ \A j \in Jobs : WF_vars(ProcessFile(j))

(* ------------------------- shared predicates --------------------------- *)

Done(j) == pc[j] = "done"

\* The job read its file to the end: the stream opened and never failed.
ReadToEnd(j) == stream[j] = "closed"

\* Staged events that are not in the main store.
Uncommitted == { s \in staging : s.event_id \notin Ids(hist) }

\* Uncommitted staged events whose parent is in the main store.
Promotable == { s \in Uncommitted : s.parent_event_id \in Ids(hist) }

\* Staged events whose parent is neither in the main store nor in any line
\* that was read (every valid line's event is in one of the two tables).
NeverResolved ==
    { s \in Uncommitted : s.parent_event_id \notin Ids(hist) \cup Ids(staging) }

\* Indices of the orphan errors in the job's error list.
OrphanErrors(j) ==
    { i \in 1..Len(job[j].errors) : job[j].errors[i].tag = "orphaned" }

\* At most one row per event_id.
UniqueIds(table) ==
    \A r1, r2 \in table : r1.event_id = r2.event_id => r1 = r2

(* ------------------- forward references (ChainSpec) -------------------- *)

\* C1: when the promotion step of processFile has finished, no staged event
\* that is missing from the main store has its parent in the main store; a
\* forward-reference chain of any depth is committed whole.
C1_FixedPoint ==
    \A j \in Jobs : pc[j] = "final" => Promotable = {}

\* For a single job over a store that started empty: the lines read were
\* all valid and carried pairwise distinct event ids (every valid line's id
\* is in one of the two tables, so the ids number as many as the lines), at
\* least one event was deferred, and the parent of every deferred event was
\* committed by the line pass (it is in the main store and was not staged).
ForwardFile(j) ==
    /\ localErrorCount[j] = 0
    /\ Cardinality(Ids(hist) \cup Ids(staging)) = lineNumber[j]
    /\ staging # {}
    /\ \A s \in staging : s.parent_event_id \in Ids(hist) \ Ids(staging)

C3_OrphanReported ==
    \A j \in Jobs :
        (Done(j) /\ job[j].status = "COMPLETED") =>
            /\ \A s \in NeverResolved : s.event_id \notin Ids(hist)
            /\ Cardinality(OrphanErrors(j)) = Cardinality(NeverResolved)

(* ----------------------- concurrent jobs (Spec) ------------------------ *)

\* C4: a job whose file has no forward reference and no malformed line ends
\* COMPLETED with processed_lines = total_lines = the number of lines and
\* error_lines = 0.
C4_CleanFileCompletes ==
    \A j \in Jobs :
        (Done(j) /\ ReadToEnd(j) /\ deferred[j] = {} /\ localErrorCount[j] = 0) =>
            /\ job[j].status = "COMPLETED"
            /\ job[j].processed_lines = lineNumber[j]
            /\ job[j].total_lines = lineNumber[j]
            /\ job[j].error_lines = 0

\* C5: the main store never holds two rows with one event id, and the
\* INSERT of a line whose event id is already stored leaves the main store as
\* it was, whatever the line's other attributes, and the line is counted as
\* processed.
C5_IdempotentCommit ==
    /\ [](UniqueIds(hist))
    /\ [][\A j \in Jobs :
            ( /\ pc[j] = "insert"
              /\ pc'[j] # "insert"
              /\ queryParams[j].parent_event_id # -2
              /\ queryParams[j].event_id \in Ids(hist) ) =>
                /\ hist' = hist
                /\ pc'[j] = "update"
                /\ localSuccessCount'[j] = localSuccessCount[j] + 1]_vars

\* A line has been committed whose event id was stored with other attributes.
C5_Witness ==
    \E j \in Jobs :
        /\ pc[j] = "update"
        /\ queryParams[j] \notin hist
        /\ queryParams[j].event_id \in Ids(hist)

\* C6: a job whose source stream was readable to the end ends COMPLETED,
\* whatever event ids its file and the tables hold.
C6_DuplicatesNotFatal ==
    \A j \in Jobs : (Done(j) /\ ReadToEnd(j)) => job[j].status = "COMPLETED"

\* C7: when two jobs that were in flight together have both finished, their
\* files having been readable, both are COMPLETED and the main store holds
\* one row per event id.
C7_ConcurrentJobsComplete ==
    (concurrent /\ \A j \in Jobs : Done(j) /\ ReadToEnd(j)) =>
        /\ \A j \in Jobs : job[j].status = "COMPLETED"
        /\ UniqueIds(hist)

\* One step of the status along PENDING -> PROCESSING -> {COMPLETED, FAILED}
\* (the row is created PENDING).
StatusStep(a, b) ==
    \/ a = "NONE" /\ b = "PENDING"
    \/ a = "PENDING" /\ b = "PROCESSING"
    \/ a = "PROCESSING" /\ b \in {"COMPLETED", "FAILED"}

\* C8: a job's status only moves along PENDING -> PROCESSING ->
\* {COMPLETED, FAILED}, and the row of a COMPLETED or FAILED job is never
\* changed again.
C8_StatusMachine ==
    [][\A j \in Jobs :
         /\ job'[j].status # job[j].status => StatusStep(job[j].status, job'[j].status)
         /\ job[j].status \in {"COMPLETED", "FAILED"} => job'[j] = job[j]]_vars

\* One job has ended COMPLETED and another FAILED.
C8_Witness ==
    \E j, k \in Jobs :
        /\ Done(j) /\ job[j].status = "COMPLETED"
        /\ Done(k) /\ job[k].status = "FAILED"

\* C9: a job is PROCESSING only once its source stream has opened, and a job
\* whose file could not be opened or read is left PENDING with a fatal error
\* recorded.
C9_ProcessingAfterOpen ==
    \A j \in Jobs :
        /\ job[j].status = "PROCESSING" => stream[j] \in {"open", "closed"}
        /\ (Done(j) /\ stream[j] = "failed") =>
              /\ job[j].status = "PENDING"
              /\ \E i \in 1..Len(job[j].errors) : job[j].errors[i].tag = "Fatal Error"

(* --------------------------- liveness (LiveSpec) ----------------------- *)

\* C10: every job that is PROCESSING is eventually COMPLETED or FAILED.
C10_ProcessingEnds ==
    \A j \in Jobs :
        (job[j].status = "PROCESSING") ~> (job[j].status \in {"COMPLETED", "FAILED"})

\* A job that was PROCESSING has ended FAILED in the catch block.
C10_Witness ==
    \E j \in Jobs : Done(j) /\ hasUpdated[j] /\ job[j].status = "FAILED"

(* ------------------------- line errors (Spec) --------------------------- *)

\* C11: when a line fails parsing or validation, nothing is added to the
\* main store or the staging area for it, the job's error_lines grows by
\* exactly one and exactly one error is appended to its errors, the status
\* is left as it is and the job goes on to the next line.
C11_LineErrorRecorded ==
    [][\A j \in Jobs :
         /\ (pc[j] \in {"read", "insert"} /\ pc'[j] = "lineError") =>
               /\ hist' = hist
               /\ staging' = staging
               /\ job'[j] = job[j]
         /\ (pc[j] = "lineError" /\ pc'[j] # "lineError") =>
               /\ hist' = hist
               /\ staging' = staging
               /\ job'[j].error_lines = job[j].error_lines + 1
               /\ Len(job'[j].errors) = Len(job[j].errors) + 1
               /\ SubSeq(job'[j].errors, 1, Len(job[j].errors)) = job[j].errors
               /\ job'[j].errors[Len(job'[j].errors)].tag = "Line"
               /\ job'[j].errors[Len(job'[j].errors)].line = lineNumber[j]
               /\ job'[j].status = job[j].status
               /\ job'[j].processed_lines = job[j].processed_lines
               /\ pc'[j] = "read"]_vars

\* A job has ended COMPLETED after a malformed second line and a valid line
\* after it.
C11_Witness ==
    \E j \in Jobs :
        /\ Done(j) /\ job[j].status = "COMPLETED"
        /\ job[j].error_lines = 1
        /\ job[j].errors[1].line = 2
        /\ lineNumber[j] = 3
        /\ job[j].processed_lines = 2

(* ------------------------ the parser on its own ------------------------ *)

\* The raw lines handed to the parser alone: one part too few up to
\* MaxParts parts, event ids and parents of every syntax class, dates that
\* are invalid, equal, or in either order.
ParseInstants == {-1, 0, 1, 3}

ParseInputs ==
    { RawLine(n, id, s, e, p) :
        n \in 6..MaxParts, id \in 0..2, s \in ParseInstants,
        e \in ParseInstants, p \in -2..1 }

InitParse ==
    /\ Start(0)
    /\ query \in { [op |-> "parse", line |-> l] : l \in ParseInputs }
    /\ answer = NoAnswer

\* The try block of one line, up to the INSERT.
Parse ==
    /\ query.op = "parse"
    /\ answer = NoAnswer
    /\ answer' = [op |-> "parse", value |-> ParseLine(query.line)]
    /\ UNCHANGED <<query, ingest>>

NextParse == Parse

ParseSpec == InitParse /\ [][NextParse]_vars

\* Every field of the line passes its validator.
FieldsValid(line) ==
    /\ line.event_id # 0
    /\ line.parent >= 0
    /\ line.start # -1 /\ line.end # -1
    /\ line.start <= line.end

\* C12: a line that splits into more than 7 parts because its description
\* contains the delimiter, and whose other fields are valid, is accepted and
\* not reported as an invalid field count.
C12_DelimiterInDescription ==
    (answer.op = "parse" /\ query.line.nparts > 7 /\ FieldsValid(query.line))
        => answer.value.ok

(* --------------------- overlaps and gaps (InsightSpec) ------------------ *)

\* One minute, the (1000 * 60) ms of the insight service, in ticks of 20 s.
MinuteTicks == 3

Instants == 0..MaxTime

\* A row of historical_events as the range queries select it.
Event(id, s, e) == [event_id |-> id, start_date |-> s, end_date |-> e]

\* The stores handed to the analytics: up to three events with
\* start_date <= end_date (the parser admits no other), named 1, 2, 3 in
\* the order of their start, the first of them starting at instant 0.
TimedStores ==
    { { Event(i, st[i][1], st[i][2]) : i \in DOMAIN st } :
        st \in { f \in UNION { [1..k -> { iv \in Instants \X Instants : iv[1] <= iv[2] }]
                                 : k \in 0..3 } :
                   /\ 1 \in DOMAIN f => f[1][1] = 0
                   /\ \A i \in DOMAIN f : i + 1 \in DOMAIN f => f[i][1] <= f[i + 1][1] } }

\* The windows asked for: the whole time line, and one that cuts into it.
Windows == { <<0, MaxTime>>, <<2, MaxTime - 2>> }

\* Variant: WHERE start_date >= $1 AND end_date <= $2.
GetEventsInRangeContained(store, startDate, endDate) ==
    { e \in store : e.start_date >= startDate /\ e.end_date <= endDate }

\* WHERE start_date <= $2 AND end_date >= $1
GetEventsInRange(store, startDate, endDate) ==
    { e \in store : e.start_date <= endDate /\ e.end_date >= startDate }

\* The orders in which a query without ORDER BY may return the rows.
Orders(rows) ==
    { f \in [1..Cardinality(rows) -> rows] :
        \A i, k \in DOMAIN f : i # k => f[i] # f[k] }

\* ... ORDER BY start_date: rows of equal start_date come in any order.
SortedOrders(rows) ==
    { f \in Orders(rows) :
        \A i \in DOMAIN f : i + 1 \in DOMAIN f => f[i].start_date <= f[i + 1].start_date }

\* The start and the end point of every event, in the order of the rows.
RECURSIVE Points(_, _)
Points(events, i) ==
    IF i > Len(events) THEN <<>>
    ELSE <<[time |-> events[i].start_date, type |-> "start", event |-> events[i]],
           [time |-> events[i].end_date, type |-> "end", event |-> events[i]]>>
         \o Points(events, i + 1)

\* (a, b) => a.time - b.time || (a.type === 'start' ? -1 : 1)
Compare(a, b) ==
    IF a.time - b.time # 0 THEN a.time - b.time
    ELSE IF a.type = "start" THEN -1 ELSE 1

\* Array.prototype.sort on a short array: binary insertion, the comparator
\* called with the element to place first. left and right count elements.
RECURSIVE BinaryInsert(_, _, _, _)
BinaryInsert(sorted, pivot, left, right) ==
    IF left >= right
      THEN SubSeq(sorted, 1, left) \o <<pivot>> \o SubSeq(sorted, left + 1, Len(sorted))
    ELSE LET mid == left + ((right - left) \div 2)
         IN  IF Compare(pivot, sorted[mid + 1]) < 0
               THEN BinaryInsert(sorted, pivot, left, mid)
               ELSE BinaryInsert(sorted, pivot, mid + 1, right)

RECURSIVE SortPoints(_, _, _)
SortPoints(points, i, sorted) ==
    IF i > Len(points) THEN sorted
    ELSE SortPoints(points, i + 1, BinaryInsert(sorted, points[i], 0, Len(sorted)))

\* [a, b].sort().join('|')
PairKey(a, b) == IF a <= b THEN <<a, b>> ELSE <<b, a>>

Max(a, b) == IF a >= b THEN a ELSE b

Min(a, b) == IF a <= b THEN a ELSE b

\* Math.floor((overlapEnd - overlapStart) / (1000 * 60))
OverlapDurationMinutes(a, b) ==
    (Min(a.end_date, b.end_date) - Max(a.start_date, b.start_date)) \div MinuteTicks

\* The inner loop over activeEvents at a start point: sweep is the record
\* of reportedPairs and overlappingPairs.
RECURSIVE ScanActive(_, _, _, _)
ScanActive(event, activeEvents, k, sweep) ==
    IF k > Len(activeEvents) THEN sweep
    ELSE LET activeEvent == activeEvents[k]
             pairKey == PairKey(event.event_id, activeEvent.event_id)
             minutes == OverlapDurationMinutes(event, activeEvent)
         IN  IF pairKey \notin sweep.reportedPairs /\ minutes > 0
               THEN ScanActive(event, activeEvents, k + 1,
                      [reportedPairs |-> sweep.reportedPairs \cup {pairKey},
                       overlappingPairs |->
                          Append(sweep.overlappingPairs,
                                 [overlappingEventPairs |->
                                      <<event.event_id, activeEvent.event_id>>,
                                  overlap_duration_minutes |-> minutes])])
               ELSE ScanActive(event, activeEvents, k + 1, sweep)

\* new Set().add(): insertion order, no duplicates.
SetAdd(seq, x) == IF \E i \in DOMAIN seq : seq[i] = x THEN seq ELSE Append(seq, x)

\* Set.prototype.delete()
SetDelete(seq, x) == SelectSeq(seq, LAMBDA y : y # x)

\* The loop over the sorted points.
RECURSIVE SweepLine(_, _, _, _)
SweepLine(points, i, activeEvents, sweep) ==
    IF i > Len(points) THEN sweep.overlappingPairs
    ELSE IF points[i].type = "start"
      THEN SweepLine(points, i + 1, SetAdd(activeEvents, points[i].event),
                     ScanActive(points[i].event, activeEvents, 1, sweep))
      ELSE SweepLine(points, i + 1, SetDelete(activeEvents, points[i].event), sweep)

FindOverlappingEvents(events) ==
    IF Len(events) < 2 THEN <<>>
    ELSE SweepLine(SortPoints(Points(events, 1), 1, <<>>), 1, <<>>,
                   [reportedPairs |-> {}, overlappingPairs |-> <<>>])

\* let largestGap = { durationMinutes: 0, startOfGap: null, ... }: -1 is
\* null for an instant, 0 for an event.
InitialGap ==
    [durationMinutes |-> 0, startOfGap |-> -1, endOfGap |-> -1,
     precedingEvent |-> 0, succeedingEvent |-> 0]

\* The loop over the consecutive pairs of the sorted rows.
RECURSIVE ScanGaps(_, _, _)
ScanGaps(events, i, largestGap) ==
    IF i > Len(events) - 1 THEN largestGap
    ELSE LET precedingEvent == events[i]
             succeedingEvent == events[i + 1]
             gapStart == precedingEvent.end_date
             gapEnd == succeedingEvent.start_date
             gapDuration == gapEnd - gapStart
         IN  ScanGaps(events, i + 1,
                IF gapDuration > largestGap.durationMinutes * MinuteTicks
                  THEN [durationMinutes |-> gapDuration \div MinuteTicks,
                        startOfGap |-> gapStart, endOfGap |-> gapEnd,
                        precedingEvent |-> precedingEvent.event_id,
                        succeedingEvent |-> succeedingEvent.event_id]
                  ELSE largestGap)

\* { largestGap: null, message: "No significant temporal gaps found ..." }
NoGapFound ==
    [found |-> FALSE, largestGap |-> InitialGap,
     message |-> "No significant temporal gaps found within the specified range, or too few events."]

FindTemporalGaps(events) ==
    IF Len(events) < 2 THEN NoGapFound
    ELSE LET largestGap == ScanGaps(events, 1, InitialGap)
         IN  IF largestGap.durationMinutes > 0
               THEN [found |-> TRUE, largestGap |-> largestGap,
                     message |-> "Largest temporal gap identified."]
               ELSE NoGapFound

InitInsight ==
    /\ Start(0)
    /\ query \in { [op |-> "insights", store |-> st,
                    startDate |-> w[1], endDate |-> w[2]] :
                     st \in TimedStores, w \in Windows }
    /\ answer = NoAnswer

\* GET /api/insights/overlapping-events
OverlappingEvents ==
    /\ query.op = "insights"
    /\ answer = NoAnswer
    /\ \E rows \in Orders(GetEventsInRange(query.store, query.startDate, query.endDate)) :
          answer' = [op |-> "overlap", value |-> FindOverlappingEvents(rows)]
    /\ UNCHANGED <<query, ingest>>

\* GET /api/insights/temporal-gaps
TemporalGaps ==
    /\ query.op = "insights"
    /\ answer = NoAnswer
    /\ \E rows \in SortedOrders(GetEventsInRange(query.store, query.startDate,
                                                 query.endDate)) :
          answer' = [op |-> "gaps", rows |-> rows, value |-> FindTemporalGaps(rows)]
    /\ UNCHANGED <<query, ingest>>

\* The value of a query-string parameter: req.query.<name> is undefined
\* when the request does not carry the name.
Given(v) == [defined |-> TRUE, value |-> v]

Undefined == [defined |-> FALSE, value |-> 0]

\* The query string of a request for a window, under the parameter names
\* of the readme (startDate, endDate) or under start_date, end_date.
RequestQuery(documented, w) ==
    IF documented
      THEN [startDate |-> Given(w[1]), endDate |-> Given(w[2]),
            start_date |-> Undefined, end_date |-> Undefined]
      ELSE [startDate |-> Undefined, endDate |-> Undefined,
            start_date |-> Given(w[1]), end_date |-> Given(w[2])]

\* getEventsInRange with the parameters as the driver binds them: an
\* undefined parameter is sent as NULL, and a comparison with NULL selects
\* no row.
GetEventsInRangeBound(store, startDate, endDate) ==
    IF startDate.defined /\ endDate.defined
      THEN GetEventsInRange(store, startDate.value, endDate.value)
      ELSE {}

\* GET /api/insights/overlapping-events, the controller.
GetOverlappingEvents ==
    /\ query.op = "insights"
    /\ answer = NoAnswer
    /\ \E documented \in BOOLEAN :
          LET reqQuery == RequestQuery(documented, <<query.startDate, query.endDate>>)
              params == [startDate |-> reqQuery.start_date, endDate |-> reqQuery.end_date]
          IN  \E rows \in Orders(GetEventsInRangeBound(query.store, params.startDate,
                                                       params.endDate)) :
                 answer' = [op |-> "getOverlappingEvents", documented |-> documented,
                            status |-> 200, value |-> FindOverlappingEvents(rows)]
    /\ UNCHANGED <<query, ingest>>

NextInsight == OverlappingEvents \/ TemporalGaps \/ GetOverlappingEvents

InsightSpec == InitInsight /\ [][NextInsight]_vars

\* The events of the store that satisfy the window predicate.
Qualifying ==
    { e \in query.store :
        e.start_date <= query.endDate /\ e.end_date >= query.startDate }

\* The whole minutes two events have in common.
CommonMinutes(a, b) ==
    LET from == IF a.start_date > b.start_date THEN a.start_date ELSE b.start_date
        to == IF a.end_date < b.end_date THEN a.end_date ELSE b.end_date
    IN  CHOOSE m \in -(MaxTime + 1)..MaxTime :
            m * MinuteTicks <= to - from /\ to - from < (m + 1) * MinuteTicks

\* The unordered pairs of qualifying events with a whole minute in common.
OverlappingIdPairs ==
    { {a.event_id, b.event_id} : a, b \in Qualifying } \cap
    { {a.event_id, b.event_id} :
        <<a, b>> \in { p \in Qualifying \X Qualifying :
                         p[1] # p[2] /\ CommonMinutes(p[1], p[2]) > 0 } }

\* C13: findOverlappingEvents returns exactly the unordered pairs of
\* distinct events that satisfy the window predicate and have a floored
\* common duration of more than 0 minutes, each pair once and with that
\* duration; touching events give no pair, fewer than two qualifying events
\* give the empty list.
C13_ExactOverlapPairs ==
    answer.op = "overlap" =>
        /\ \A i \in DOMAIN answer.value :
              LET ids == answer.value[i].overlappingEventPairs
              IN  /\ {ids[1], ids[2]} \in OverlappingIdPairs
                  /\ \E a, b \in Qualifying :
                        /\ a.event_id = ids[1] /\ b.event_id = ids[2]
                        /\ answer.value[i].overlap_duration_minutes = CommonMinutes(a, b)
        /\ \A pair \in OverlappingIdPairs :
              Cardinality({ i \in DOMAIN answer.value :
                  {answer.value[i].overlappingEventPairs[1],
                   answer.value[i].overlappingEventPairs[2]} = pair }) = 1
        /\ Cardinality(Qualifying) < 2 => answer.value = <<>>

\* Two pairs were reported while two other qualifying events only touch at
\* an instant and one event reaches out of the window.
C13_Witness ==
    /\ answer.op = "overlap"
    /\ Len(answer.value) = 2
    /\ \E a, b \in Qualifying : a # b /\ a.end_date = b.start_date
    /\ \E a \in Qualifying : a.start_date < query.startDate

\* The gap between two consecutive rows, in ticks (negative when they
\* overlap).
GapAfter(rows, i) == rows[i + 1].start_date - rows[i].end_date

\* C14: a reported gap is a maximum over the consecutive pairs in start
\* order: no consecutive pair is further apart than the reported interval
\* is long, also when the gaps differ by less than one minute.
C14_LargestGapIsMaximum ==
    (answer.op = "gaps" /\ answer.value.found) =>
        \A i \in 1..(Len(answer.rows) - 1) :
            GapAfter(answer.rows, i) <=
                answer.value.largestGap.endOfGap - answer.value.largestGap.startOfGap

\* C15: no gap is reported if and only if fewer than two events qualify or
\* no consecutive pair in start order has a strictly positive gap; a
\* strictly positive gap of any length, also under one minute, is reported,
\* and two events 20 minutes apart give durationMinutes 20 (here: two
\* events a whole number m of minutes apart give m).
C15_GapReportedIffPositive ==
    answer.op = "gaps" =>
        /\ ~answer.value.found <=>
              \/ Len(answer.rows) < 2
              \/ \A i \in 1..(Len(answer.rows) - 1) : GapAfter(answer.rows, i) <= 0
        /\ \A m \in 1..MaxTime :
              (Len(answer.rows) = 2 /\ GapAfter(answer.rows, 1) = m * MinuteTicks)
                  => (answer.value.found /\ answer.value.largestGap.durationMinutes = m)

\* C16: a reported gap is covered by no qualifying event: none starts
\* before the end of the gap and ends after its start.
C16_GapUncovered ==
    (answer.op = "gaps" /\ answer.value.found) =>
        \A e \in Qualifying :
            ~(/\ e.start_date < answer.value.largestGap.endOfGap
              /\ e.end_date > answer.value.largestGap.startOfGap)

(* ---------------- influence path and timeline (TreeSpec) ---------------- *)

NodeIds == 1..MaxNodes

\* duration_minutes of the stored events.
Durations == {1, 2}

\* A row of historical_events as the hierarchy queries select it;
\* parent_event_id 0 is NULL.
Node(id, p, d) == [event_id |-> id, parent_event_id |-> p, duration_minutes |-> d]

\* The parent of id along n parent references: 0 once a root is passed,
\* -1 once an id that is not stored is met.
RECURSIVE Up(_, _, _)
Up(parent, id, n) ==
    IF n = 0 \/ id <= 0 THEN id ELSE Up(parent, parent[id], n - 1)

\* The stores handed to the hierarchy operations: every forest over a
\* subset of NodeIds (-1: the id is not stored). The foreign key makes
\* every parent a stored event; the stores are acyclic.
Forests(durations) ==
    { { Node(i, parent[i], duration[i]) : i \in { n \in NodeIds : parent[n] # -1 } } :
        <<parent, duration>> \in
            { pd \in [NodeIds -> {-1, 0} \cup NodeIds] \X [NodeIds -> durations] :
                \A i \in NodeIds :
                    /\ pd[1][i] > 0 => pd[1][pd[1][i]] # -1
                    /\ pd[1][i] # -1 => Up(pd[1], i, MaxNodes) = 0 } }

TreeStores == Forests(Durations)

\* The recursive step of EventAncestors, repeated until no row is added:
\* INNER JOIN ... ON e.event_id = ea.parent_event_id
RECURSIVE EventAncestors(_, _)
EventAncestors(store, rows) ==
    LET more == rows \cup { e \in store : \E r \in rows : e.event_id = r.parent_event_id }
    IN  IF more = rows THEN rows ELSE EventAncestors(store, more)

\* The recursive step of EventDescendants and of event_hierarchy:
\* INNER JOIN ... ON e.parent_event_id = eh.event_id
RECURSIVE EventDescendants(_, _)
EventDescendants(store, rows) ==
    LET more == rows \cup { e \in store : \E r \in rows : e.parent_event_id = r.event_id }
    IN  IF more = rows THEN rows ELSE EventDescendants(store, more)

\* WITH RECURSIVE event_hierarchy: the root and, transitively, the rows
\* whose parent_event_id is in the hierarchy.
GetEventDescendants(store, rootEventId) ==
    EventDescendants(store, { e \in store : e.event_id = rootEventId })

\* Variant: only the EventDescendants part of the family query.
GetEventFamilyDescendants(store, eventId) ==
    EventDescendants(store, { e \in store : e.event_id = eventId })

\* SELECT * FROM EventAncestors UNION SELECT * FROM EventDescendants
GetEventFamily(store, eventId) ==
    EventAncestors(store, { e \in store : e.event_id = eventId })
        \cup EventDescendants(store, { e \in store : e.event_id = eventId })

\* eventMap: the ids it has and the entry it holds for an id.
EventMapKeys(events) == { events[i].event_id : i \in DOMAIN events }

EventMapGet(events, id) ==
    LET e == events[CHOOSE i \in DOMAIN events : events[i].event_id = id]
    IN  [event_id |-> e.event_id, duration_minutes |-> e.duration_minutes]

\* childrenMap.get(u) || []: the children of u in the order of the rows.
RECURSIVE ChildrenMapGet(_, _, _)
ChildrenMapGet(events, u, i) ==
    IF i > Len(events) THEN <<>>
    ELSE (IF events[i].parent_event_id = u THEN <<events[i].event_id>> ELSE <<>>)
         \o ChildrenMapGet(events, u, i + 1)

\* Infinity, for a distance.
Infinity == -1

\* a < b on distances
Less(a, b) == a # Infinity /\ (b = Infinity \/ a < b)

\* The loop over pq that picks the id of least distance; 0 is null.
RECURSIVE PickLeast(_, _, _, _)
PickLeast(pq, k, u, distances) ==
    IF k > Len(pq) THEN u
    ELSE PickLeast(pq, k + 1,
                   IF u = 0 \/ Less(distances[pq[k]], distances[u]) THEN pq[k] ELSE u,
                   distances)

\* The loop over the children of u.
RECURSIVE Relax(_, _, _, _, _)
Relax(events, u, children, k, search) ==
    IF k > Len(children) THEN search
    ELSE LET v == children[k]
             alt == search.distances[u] + EventMapGet(events, v).duration_minutes
         IN  Relax(events, u, children, k + 1,
                   IF Less(alt, search.distances[v])
                     THEN [distances |-> [search.distances EXCEPT ![v] = alt],
                           previousNodes |-> [search.previousNodes EXCEPT ![v] = u],
                           pq |-> SetAdd(search.pq, v)]
                     ELSE search)

\* The member of pq that an iteration extracts.
Extracted(search) == PickLeast(search.pq, 1, 0, search.distances)

\* Variant: without the break.
BreaksNever(u, targetEventId) == FALSE

\* if (u === targetEventId) break;
Breaks(u, targetEventId) == u = targetEventId

\* One iteration of the loop: u is picked and deleted from pq and, unless
\* the loop breaks, its children are relaxed.
Iteration(events, targetEventId, search) ==
    LET u == Extracted(search)
        popped == [search EXCEPT !.pq = SetDelete(@, u)]
    IN  IF Breaks(u, targetEventId) THEN popped
        ELSE Relax(events, u, ChildrenMapGet(events, u, 1), 1, popped)

\* while (pq.size > 0)
RECURSIVE Dijkstra(_, _, _)
Dijkstra(events, targetEventId, search) ==
    IF Len(search.pq) = 0 THEN search
    ELSE IF Breaks(Extracted(search), targetEventId)
      THEN Iteration(events, targetEventId, search)
      ELSE Dijkstra(events, targetEventId, Iteration(events, targetEventId, search))

\* Variant: the source starts at distance 0.
SourceDistanceZero(events, sourceEventId) == 0

\* Variant: without the distances.set for the source, which stays at Infinity.
SourceDistanceUnset(events, sourceEventId) == Infinity

\* distances.set(sourceEventId, eventMap.get(sourceEventId).duration_minutes)
SourceDistance(events, sourceEventId) ==
    EventMapGet(events, sourceEventId).duration_minutes

\* while (currentId) { path.unshift(...); currentId = previousNodes.get(currentId) }
RECURSIVE Unshift(_, _, _, _)
Unshift(events, previousNodes, currentId, path) ==
    IF currentId = 0 THEN path
    ELSE Unshift(events, previousNodes, previousNodes[currentId],
                 <<EventMapGet(events, currentId)>> \o path)

\* Variant: the answer for a source without rows.
NoPathAsNoSource(sourceEventId, targetEventId) ==
    [sourceEventId |-> sourceEventId, targetEventId |-> targetEventId,
     shortestPath |-> <<>>, totalDurationMinutes |-> 0,
     message |-> "Source event not found."]

NoPath(sourceEventId, targetEventId) ==
    [sourceEventId |-> sourceEventId, targetEventId |-> targetEventId,
     shortestPath |-> <<>>, totalDurationMinutes |-> 0,
     message |-> "No temporal path found from source to target event."]

\* distances, previousNodes and pq when the loop is entered.
InitialSearch(events, sourceEventId) ==
    [distances |->
         [id \in EventMapKeys(events) |->
             IF id = sourceEventId
               THEN SourceDistance(events, sourceEventId)
               ELSE Infinity],
     previousNodes |-> [id \in EventMapKeys(events) |-> 0],
     pq |-> <<sourceEventId>>]

\* findEventInfluencePath from the building of the maps on.
SearchPath(events, sourceEventId, targetEventId) ==
    IF targetEventId \notin EventMapKeys(events)
      THEN NoPath(sourceEventId, targetEventId)
    ELSE LET search ==
                 Dijkstra(events, targetEventId, InitialSearch(events, sourceEventId))
             path == IF search.previousNodes[targetEventId] # 0
                        \/ targetEventId = sourceEventId
                       THEN Unshift(events, search.previousNodes, targetEventId, <<>>)
                       ELSE <<>>
         IN  IF Len(path) > 0 /\ path[1].event_id = sourceEventId
               THEN [sourceEventId |-> sourceEventId, targetEventId |-> targetEventId,
                     shortestPath |-> path,
                     totalDurationMinutes |-> search.distances[targetEventId],
                     message |-> "Shortest temporal path found from source to target event."]
               ELSE NoPath(sourceEventId, targetEventId)

\* Variant: without the test for an empty result of the query.
FindEventInfluencePathUnchecked(events, sourceEventId, targetEventId) ==
    SearchPath(events, sourceEventId, targetEventId)

FindEventInfluencePath(events, sourceEventId, targetEventId) ==
    IF Len(events) = 0 THEN [message |-> "Source event not found."]
    ELSE SearchPath(events, sourceEventId, targetEventId)

\* nodeMap after the first loop: { id, ...item, children: [] }; parent is
\* the parent property that the last loop sets, 0 while it is not set.
NodeMap(flatList) ==
    [id \in EventMapKeys(flatList) |->
        LET item == flatList[CHOOSE i \in DOMAIN flatList : flatList[i].event_id = id]
        IN  [id |-> id, parent_event_id |-> item.parent_event_id,
             hasChildren |-> TRUE, children |-> <<>>, parent |-> 0]]

\* The second loop: every node is pushed to the children of its parent.
RECURSIVE LinkChildren(_, _, _)
LinkChildren(flatList, i, nodeMap) ==
    IF i > Len(flatList) THEN nodeMap
    ELSE LET parentId == flatList[i].parent_event_id
         IN  LinkChildren(flatList, i + 1,
                IF parentId # 0 /\ parentId \in DOMAIN nodeMap
                  THEN [nodeMap EXCEPT ![parentId].children =
                                           Append(@, flatList[i].event_id)]
                  ELSE nodeMap)

\* The last loop: walks up from the root, deletes the children of every
\* ancestor and hangs it in as parent.
RECURSIVE LinkAncestors(_, _, _)
LinkAncestors(nodeMap, current, parentId) ==
    IF parentId # 0 /\ parentId \in DOMAIN nodeMap
      THEN LinkAncestors([nodeMap EXCEPT ![parentId].hasChildren = FALSE,
                                         ![parentId].children = <<>>,
                                         ![current].parent = parentId],
                         parentId, nodeMap[parentId].parent_event_id)
      ELSE nodeMap

\* The returned node, as its id and the nodes that can be reached from it.
GetTimelineByRootEventId(flatList, rootEventId) ==
    IF Len(flatList) = 0 THEN [found |-> FALSE, id |-> 0, nodes |-> <<>>]
    ELSE LET nodeMap == LinkChildren(flatList, 1, NodeMap(flatList))
         IN  IF rootEventId \notin DOMAIN nodeMap
               THEN [found |-> FALSE, id |-> 0, nodes |-> <<>>]
               ELSE [found |-> TRUE, id |-> rootEventId,
                     nodes |-> LinkAncestors(nodeMap, rootEventId,
                                             nodeMap[rootEventId].parent_event_id)]

InitTree ==
    /\ Start(0)
    /\ query \in { [op |-> "tree", store |-> st, source |-> src, target |-> tgt] :
                     st \in TreeStores, src \in NodeIds, tgt \in NodeIds }
    /\ answer = NoAnswer

\* GET /api/insights/event-influence
EventInfluence ==
    /\ query.op = "tree"
    /\ answer = NoAnswer
    /\ \E rows \in Orders(GetEventDescendants(query.store, query.source)) :
          answer' = [op |-> "path",
                     value |-> FindEventInfluencePath(rows, query.source, query.target)]
    /\ UNCHANGED <<query, ingest>>

\* GET /api/events/timeline/:rootEventId
Timeline ==
    /\ query.op = "tree"
    /\ answer = NoAnswer
    /\ \E rows \in Orders(GetEventFamily(query.store, query.source)) :
          answer' = [op |-> "timeline",
                     value |-> GetTimelineByRootEventId(rows, query.source)]
    /\ UNCHANGED <<query, ingest>>

\* The spellings in which a request may give the id of an event: the one
\* the store returns (lower case), and -id for the same UUID in upper case.
Spellings(id) == {id, -id}

\* The uuid that the store reads from the text of a parameter.
Uuid(text) == IF text < 0 THEN -text ELSE text

\* Variant: the controller answers 200 whatever the service returns.
TimelineStatusAlwaysOk(timeline) == 200

\* if (!timeline) res.status(404) ... else res.status(200)
TimelineStatus(timeline) == IF ~timeline.found THEN 404 ELSE 200

\* GET /api/events/timeline/:rootEventId, the parameter as the client
\* spells it.
GetTimeline ==
    /\ query.op = "tree"
    /\ answer = NoAnswer
    /\ \E rootEventId \in Spellings(query.source) :
       \E rows \in Orders(GetEventFamily(query.store, Uuid(rootEventId))) :
          LET timeline == GetTimelineByRootEventId(rows, rootEventId)
          IN  answer' = [op |-> "getTimeline", rootEventId |-> rootEventId,
                         rows |-> rows, status |-> TimelineStatus(timeline),
                         value |-> timeline]
    /\ UNCHANGED <<query, ingest>>

NextTree == EventInfluence \/ Timeline \/ GetTimeline

TreeSpec == InitTree /\ [][NextTree]_vars

\* The stored ids, and the stored parent and duration of a stored id.
Stored == { e.event_id : e \in query.store }

ParentId(id) == (CHOOSE e \in query.store : e.event_id = id).parent_event_id

Minutes(id) == (CHOOSE e \in query.store : e.event_id = id).duration_minutes

\* The chain of ids from id up to its ultimate ancestor, id first.
RECURSIVE ChainUp(_)
ChainUp(id) == IF ParentId(id) = 0 THEN <<id>> ELSE <<id>> \o ChainUp(ParentId(id))

\* a is id or an ancestor of id.
IsAbove(a, id) == \E i \in DOMAIN ChainUp(id) : ChainUp(id)[i] = a

\* The chain of ids from ancestor a down to id.
ChainDown(a, id) ==
    LET up == ChainUp(id)
        n == CHOOSE i \in DOMAIN up : up[i] = a
    IN  [i \in 1..n |-> up[n + 1 - i]]

RECURSIVE SumMinutes(_)
SumMinutes(ids) ==
    IF ids = <<>> THEN 0 ELSE Minutes(Head(ids)) + SumMinutes(Tail(ids))

C18_NoPathOutsideSubtree ==
    (/\ answer.op = "path"
     /\ query.source \in Stored
     /\ ~(query.target \in Stored /\ IsAbove(query.source, query.target)))
        => /\ answer.value.message =
                  "No temporal path found from source to target event."
           /\ answer.value.shortestPath = <<>>
           /\ answer.value.totalDurationMinutes = 0

\* No path was found to the parent of the source.
C18_Witness ==
    /\ answer.op = "path"
    /\ query.source \in Stored
    /\ ParentId(query.source) = query.target
    /\ \E e \in query.store : e.parent_event_id = query.source
    /\ answer.value.message = "No temporal path found from source to target event."

\* C19: for a source that is not stored the answer is the source-not-found
\* message, whatever the target, and carries no path.
C19_SourceNotFound ==
    (answer.op = "path" /\ query.source \notin Stored)
        => answer.value = [message |-> "Source event not found."]

\* The source is not stored while the target is.
C19_Witness ==
    /\ answer.op = "path"
    /\ query.source \notin Stored
    /\ query.target \in Stored
    /\ answer.value.message = "Source event not found."

\* The ids reachable from the returned node through children lists, the
\* returned node not counted.
RECURSIVE Nested(_, _)
Nested(nodes, id) ==
    IF ~nodes[id].hasChildren THEN {}
    ELSE UNION { {nodes[id].children[i]} \cup Nested(nodes, nodes[id].children[i]) :
                   i \in DOMAIN nodes[id].children }

\* The ids visited by following parent from a node, the node not counted.
RECURSIVE ParentWalk(_, _)
ParentWalk(nodes, id) ==
    IF nodes[id].parent = 0 THEN <<>>
    ELSE <<nodes[id].parent>> \o ParentWalk(nodes, nodes[id].parent)

C21_TimelineNotFound ==
    answer.op = "getTimeline" =>
        LET family == { answer.rows[i].event_id : i \in DOMAIN answer.rows }
        IN  IF family = {} \/ answer.rootEventId \notin family
              THEN ~answer.value.found /\ answer.status = 404
              ELSE /\ answer.value.found /\ answer.status = 200
                   /\ answer.value.id = answer.rootEventId

\* A family of three rows that does not contain the id as the request
\* spells it, answered with "not found".
C21_Witness ==
    /\ answer.op = "getTimeline"
    /\ Len(answer.rows) = 3
    /\ \A i \in DOMAIN answer.rows : answer.rows[i].event_id # answer.rootEventId
    /\ answer.status = 404

\* C22: a request to the overlapping-events endpoint that gives the window
\* as startDate and endDate, as documented, is answered with the
\* overlapping pairs of that window.
C22_DocumentedWindowParameters ==
    (answer.op = "getOverlappingEvents" /\ answer.documented) =>
        { {answer.value[i].overlappingEventPairs[1],
           answer.value[i].overlappingEventPairs[2]} : i \in DOMAIN answer.value }
            = OverlappingIdPairs

\* The rules of line validation that a line violates, numbered in the
\* order field count (1), event_id (2), parent reference (3), date
\* parsing (4), start <= end (5). The parent rule asks for the literal NULL
\* or a UUID.
Violated(line) ==
    (IF line.nparts # 7 THEN {1} ELSE {})
    \cup (IF line.event_id = 0 THEN {2} ELSE {})
    \cup (IF line.parent < 0 THEN {3} ELSE {})
    \cup (IF line.start = -1 \/ line.end = -1 THEN {4} ELSE {})
    \cup (IF line.start # -1 /\ line.end # -1 /\ line.start > line.end THEN {5} ELSE {})

\* The message of each rule.
RuleMessage ==
    <<"Invalid number of fields", "Invalid UUID format for event_id",
      "Invalid UUID format for parent_event_id", "Invalid date format",
      "start_date cannot be after end_date">>

\* C23: the checks are applied in the order field count, event_id, parent
\* reference, date parsing, start <= end: a line that violates several
\* rules is rejected with the message of the first rule it violates, a line
\* that violates none is accepted, and the messages are pairwise distinct.
C23_FirstViolatedRule ==
    /\ \A m, n \in DOMAIN RuleMessage : m # n => RuleMessage[m] # RuleMessage[n]
    /\ answer.op = "parse" =>
          IF Violated(query.line) = {}
            THEN answer.value.ok
            ELSE /\ ~answer.value.ok
                 /\ answer.value.msg =
                       RuleMessage[CHOOSE r \in Violated(query.line) :
                                       \A o \in Violated(query.line) : r <= o]

\* C24: the parent field is "no parent" exactly when it is the literal
\* NULL; any other text that is not a UUID, the empty string included,
\* makes a line that passed the field count and the event_id check fail
\* with the parent_event_id message, before any insert.
C24_ParentFieldValidated ==
    answer.op = "parse" =>
        /\ (answer.value.ok /\ answer.value.row.parent_event_id = 0)
              => query.line.parent = 0
        /\ (query.line.nparts = 7 /\ query.line.event_id # 0 /\ query.line.parent < 0)
              => (~answer.value.ok
                  /\ answer.value.msg = "Invalid UUID format for parent_event_id")

\* C25: every pair of qualifying events whose spans intersect for a
\* strictly positive duration, also one of less than a minute, is reported
\* by findOverlappingEvents.
C25_EveryPositiveOverlapReported ==
    answer.op = "overlap" =>
        \A a, b \in Qualifying :
            (/\ a # b
             /\ a.start_date < b.end_date /\ b.start_date < a.end_date)
                => \E i \in DOMAIN answer.value :
                      {answer.value[i].overlappingEventPairs[1],
                       answer.value[i].overlappingEventPairs[2]}
                          = {a.event_id, b.event_id}

(* ----------------------- store invariants (Spec) ------------------------ *)

\* C26: in every reachable state, with jobs running or finished, every
\* event of the main store that has a parent reference has that parent in
\* the main store; as no event is ever removed, no event is committed
\* before its parent.
C26_ReferentialIntegrity ==
    \A r \in hist : r.parent_event_id # 0 => r.parent_event_id \in Ids(hist)

\* Two jobs have been in flight together, and the main store holds a child
\* that was first staged and a grandchild of its parent's parent.
C26_Witness ==
    /\ concurrent
    /\ \E r \in hist : r.parent_event_id # 0 /\ r \in staging
    /\ \E r, q \in hist :
          r.parent_event_id = q.event_id /\ q.parent_event_id # 0

(* ---------------------- stored dates (DatesSpec) ------------------------ *)

\* The lines of a file whose dates vary: event 1 without parent and its
\* child 2, each with every pair of dates that are invalid, equal, or in
\* either order, up to a minute and a half apart.
DatedLines ==
    { RawLine(7, id, s, e, id - 1) :
        id \in 1..2, s \in ParseInstants, e \in ParseInstants }

InitDates == Start(MaxDatedLines) /\ NoCall

\* A single job over a file of dated lines.
NextDates ==
    \/ StartIngestionJob("j1")
    \/ MarkProcessing("j1")
    \/ ReadLineFrom("j1", DatedLines)
    \/ EndOfFile("j1")
    \/ StreamError("j1")
    \/ InsertEvent("j1")
    \/ UpdateJob("j1")
    \/ StageEvent("j1")
    \/ RecordLineError("j1")
    \/ Promote("j1")
    \/ FinalUpdate("j1")
    \/ FailUpdate("j1")

DatesSpec == InitDates /\ [][NextDates]_vars

\* C27: every event of the main store or of the staging area has
\* start <= end and duration_minutes >= 0, and its duration_minutes is
\* end - start rounded to whole minutes (a half rounds up; the instants are
\* half minutes).
C27_DatesAndDuration ==
    \A r \in hist \cup staging :
        /\ r.start_date <= r.end_date
        /\ r.duration_minutes >= 0
        /\ 2 * r.duration_minutes - (r.end_date - r.start_date) \in {0, 1}

\* The main store holds an event of a minute and a half, stored as 2
\* minutes, and its child of no length, which was staged first.
C27_Witness ==
    /\ \E r \in hist : r.end_date - r.start_date = 3 /\ r.duration_minutes = 2
    /\ \E r \in hist \cap staging : r.start_date = r.end_date

(* --------------- staging and counters (ChainSpec, Spec) ----------------- *)

\* C28: a staged event is destroyed when it is promoted: once a job has
\* completed, no event id is both in the staging area and in the main
\* store, and every event left in the staging area is one whose parent is
\* not committed.
C28_StagingClearedOnPromotion ==
    \A j \in Jobs :
        (Done(j) /\ job[j].status = "COMPLETED") =>
            /\ Ids(staging) \cap Ids(hist) = {}
            /\ \A s \in staging : s.parent_event_id \notin Ids(hist)

\* C29: at every line boundary of a job that is PROCESSING, after line k
\* was handled and before line k + 1 is read, the job record has
\* total_lines = k and processed_lines + error_lines = k, whether line k was
\* committed, staged or rejected.
C29_CountersAtLineBoundary ==
    \A j \in Jobs :
        (pc[j] = "read" /\ job[j].status = "PROCESSING") =>
            /\ job[j].total_lines = lineNumber[j]
            /\ job[j].processed_lines + job[j].error_lines = lineNumber[j]

Tagged(j, tag) == { i \in 1..Len(job[j].errors) : job[j].errors[i].tag = tag }

\* C32: in every state, a job's errors list has one entry per counted error
\* line, plus one when a fatal error has been recorded, and its line entries
\* are in increasing line-number order.
C32_ErrorsListMatchesCounter ==
    \A j \in Jobs :
        /\ Cardinality(Tagged(j, "Fatal Error")) <= 1
        /\ Len(job[j].errors) = job[j].error_lines + Cardinality(Tagged(j, "Fatal Error"))
        /\ \A i, k \in Tagged(j, "Line") :
               i < k => job[j].errors[i].line < job[j].errors[k].line

\* Two rejected lines and then a fatal error.
C32_Witness ==
    /\ job["j1"].error_lines = 2
    /\ Len(job["j1"].errors) = 3
    /\ Tagged("j1", "Fatal Error") = {3}

(* ---------------------- whose events a job promotes -------------------- *)

\* C33: the promotion step of a job commits only events staged by that job
\* (deferred[j] is the set of rows the job itself sent to the staging area).
C33_PromotesOwnEventsOnly ==
    [][\A j \in Jobs :
          (pc[j] = "promote" /\ pc'[j] = "final") => (hist' \ hist) \subseteq deferred[j]]_vars

(* ------------------------ source equal to target ----------------------- *)

SearchDurations == {0, 1}

\* The stores searched.  The loop never compares two ids for order, and of
\* the order of the rows only the order of the children of each parent
\* reaches it: the events are named with the source as 1, every other
\* parent before its children, and siblings in the order of their rows.
SearchStores ==
    { st \in Forests(SearchDurations) :
        \A e \in st : (e.event_id > 1 /\ e.parent_event_id # 0)
                          => e.parent_event_id < e.event_id }

\* The rows in the order of their names.
NamedOrder(rows) ==
    { f \in Orders(rows) :
        \A i, k \in DOMAIN f : i < k => f[i].event_id < f[k].event_id }

InitSearch == Start(0) /\ NoCall

\* findEventInfluencePath up to the entry of its loop: the rows of a source
\* that has some, and a target that is in eventMap.  The answer holds the
\* loop's variables and a record of its run: the ids extracted, in order,
\* how many times each id was added to pq, and whether the loop was left.
EnterSearch ==
    /\ query = NoQuery
    /\ \E st \in SearchStores, src \in {1}, tgt \in NodeIds :
          \E rows \in NamedOrder(GetEventDescendants(st, src)) :
             /\ Len(rows) > 0
             /\ tgt \in EventMapKeys(rows)
             /\ query' = [op |-> "search", events |-> rows, source |-> src, target |-> tgt]
             /\ answer' = [op |-> "search",
                           search |-> InitialSearch(rows, src),
                           extracted |-> <<>>,
                           entered |-> [id \in EventMapKeys(rows) |->
                                           IF id = src THEN 1 ELSE 0],
                           stopped |-> FALSE]
    /\ UNCHANGED ingest

\* One iteration of while (pq.size > 0), and the test that follows it.
SearchStep ==
    /\ query.op = "search"
    /\ ~answer.stopped
    /\ Len(answer.search.pq) > 0
    /\ LET u == Extracted(answer.search)
           next == Iteration(query.events, query.target, answer.search)
       IN  answer' = [op |-> "search",
                      search |-> next,
                      extracted |-> Append(answer.extracted, u),
                      entered |-> [id \in DOMAIN answer.entered |->
                                      answer.entered[id]
                                        + (IF next.distances[id] # answer.search.distances[id]
                                             THEN 1 ELSE 0)],
                      stopped |-> Breaks(u, query.target) \/ Len(next.pq) = 0]
    /\ UNCHANGED <<query, ingest>>

NextSearch == EnterSearch \/ SearchStep

\* A call that was made runs to its end: nothing else runs between two
\* iterations.
SearchSpec == InitSearch /\ [][NextSearch]_vars /\ WF_vars(SearchStep)

\* The children of the target among the rows.
TargetChildren ==
    { query.events[i].event_id : i \in { k \in DOMAIN query.events :
                                  query.events[k].parent_event_id = query.target } }

\* What holds of the loop's run at every iteration.
SearchSafe ==
    /\ \A id \in DOMAIN answer.entered : answer.entered[id] <= 1
    /\ \A i, k \in DOMAIN answer.extracted :
          i # k => answer.extracted[i] # answer.extracted[k]
    /\ \A i \in DOMAIN answer.extracted :
          answer.extracted[i] = query.target
              => /\ i = Len(answer.extracted)
                 /\ answer.stopped
                 /\ \A v \in TargetChildren :
                       /\ answer.entered[v] = 0
                       /\ answer.search.distances[v] = Infinity
    /\ answer.stopped =>
          /\ Len(answer.extracted) > 0
          /\ answer.extracted[Len(answer.extracted)] = query.target

\* C35: over every acyclic descendant subtree with non-negative durations
\* the search loop is left; each node is added to the frontier at most once,
\* the loop is left by the iteration that extracts the target, and nothing
\* is extracted or relaxed after it.
C35_SearchLoopTerminates ==
    /\ [](answer.op = "search" => SearchSafe)
    /\ (answer.op = "search") ~> (answer.op = "search" /\ answer.stopped)

\* The loop was left on the target with another node still in the frontier.
C35_Witness ==
    /\ answer.op = "search"
    /\ answer.stopped
    /\ Len(answer.extracted) = 2
    /\ Len(answer.search.pq) > 0
    /\ \E i \in DOMAIN query.events : query.events[i].duration_minutes = 0

(* ------------------------- the ingest request -------------------------- *)

\* The files on the server's disk.
ExistingFiles == {"events.csv"}

\* The filePath property of the request body: absent, or a string.
FilePaths ==
    { [given |-> FALSE, path |-> ""], [given |-> TRUE, path |-> ""],
      [given |-> TRUE, path |-> "absent.csv"], [given |-> TRUE, path |-> "events.csv"] }

\* !filePath
Falsy(filePath) == ~filePath.given \/ filePath.path = ""

\* fs.existsSync(filePath)
ExistsSync(filePath) == filePath.path \in ExistingFiles

\* Variant: without the fs.existsSync test.
RejectionWithoutExistsSync(filePath) == IF Falsy(filePath) THEN 400 ELSE 0

\* The status with which the controller rejects the request before it
\* calls the service; 0 when it does not.
Rejection(filePath) ==
    IF Falsy(filePath) THEN 400
    ELSE IF ~ExistsSync(filePath) THEN 404
    ELSE 0

\* A request for ingestion arrives at a server that has no job yet.
InitIngest ==
    /\ Start(MaxLiveLines)
    /\ query \in { [op |-> "ingest", filePath |-> f] : f \in FilePaths }
    /\ answer = NoAnswer

\* POST /api/events/ingest: the controller, the service and the INSERT of
\* the job row, which the database may reject.
IngestEvents ==
    /\ query.op = "ingest"
    /\ answer = NoAnswer
    /\ UNCHANGED query
    /\ IF Rejection(query.filePath) # 0
         THEN /\ answer' = [op |-> "ingestEvents", status |-> Rejection(query.filePath)]
              /\ UNCHANGED ingest
         ELSE \E ok \in BOOLEAN :
                 IF ok
                   THEN /\ StartJob("j1")
                        /\ answer' = [op |-> "ingestEvents", status |-> 202]
                   ELSE /\ answer' = [op |-> "ingestEvents", status |-> 500]
                        /\ UNCHANGED ingest

NextIngest == IngestEvents \/ ProcessFile("j1")

IngestSpec == InitIngest /\ [][NextIngest]_vars

\* What the request is answered and what exists once it is answered.
IngestAnswered ==
    answer # NoAnswer =>
        /\ Falsy(query.filePath) => answer.status = 400
        /\ (~Falsy(query.filePath) /\ query.filePath.path \notin ExistingFiles)
              => answer.status = 404
        /\ answer.status # 202 =>
              \A j \in Jobs : job[j] = NoJob /\ pc[j] = "idle"
        /\ answer.status = 202 =>
              /\ query.filePath.path \in ExistingFiles
              /\ job["j1"] # NoJob
              /\ job["j2"] = NoJob

\* C36: a request without filePath is answered 400 and one for a file that
\* does not exist 404, and neither ever has a job record or any processing;
\* a job record is created only by the step that accepts a request, once,
\* with status PENDING, and its processing has not started at that point.
C36_IngestRequest ==
    [][/\ IngestAnswered'
       /\ \A j \in Jobs :
             /\ pc'[j] # "idle" => job'[j] # NoJob
             /\ (job[j] = NoJob /\ job'[j] # NoJob)
                   => /\ answer = NoAnswer /\ answer'.status = 202
                      /\ job'[j].status = "PENDING"
                      /\ pc[j] = "idle" /\ pc'[j] = "mark"
             /\ job[j] # NoJob => job'[j] # NoJob]_vars

\* A request for a file that does not exist was answered.
C36_Witness ==
    /\ query.op = "ingest"
    /\ query.filePath.path = "absent.csv"
    /\ answer # NoAnswer
    /\ answer.status = 404
    /\ job["j1"] = NoJob

(* ----------------------- paging of the event search -------------------- *)

\* req.query.page and req.query.limit: absent, or the text of an integer.
PageParameters == {Undefined} \cup { Given(n) : n \in -MaxPage..MaxPage }

\* parseInt(text, 10): the integer that the text spells, NaN for undefined.
ParseInt(param) ==
    IF param.defined THEN [nan |-> FALSE, value |-> param.value]
    ELSE [nan |-> TRUE, value |-> 0]

\* number || fallback: the fallback replaces NaN and 0, nothing else.
OrDefault(number, fallback) ==
    IF number.nan \/ number.value = 0 THEN fallback ELSE number.value

\* const offset = (page - 1) * limit
Offset(page, limit) == (page - 1) * limit

\* The database rejects a negative LIMIT or OFFSET; the controller answers
\* 500 from its catch block and 200 otherwise.
SearchStatus(limit, offset) == IF limit < 0 \/ offset < 0 THEN 500 ELSE 200

InitPaging ==
    /\ Start(0)
    /\ query \in { [op |-> "search events", page |-> pg, limit |-> lm] :
                     pg \in PageParameters, lm \in PageParameters }
    /\ answer = NoAnswer

\* GET /api/events/search, as far as paging goes.
SearchEvents ==
    /\ query.op = "search events"
    /\ answer = NoAnswer
    /\ LET page == OrDefault(ParseInt(query.page), 1)
           limit == OrDefault(ParseInt(query.limit), 10)
       IN  answer' = [op |-> "searchEvents", page |-> page, limit |-> limit,
                      offset |-> Offset(page, limit),
                      status |-> SearchStatus(limit, Offset(page, limit))]
    /\ UNCHANGED <<query, ingest>>

NextPaging == SearchEvents

PagingSpec == InitPaging /\ [][NextPaging]_vars

\* C37: whatever integers are supplied as page and limit, the page used is
\* at least 1, the limit used is at least 1 and the offset is not negative.
C37_PagingNormalised ==
    answer.op = "searchEvents" =>
        /\ answer.page >= 1
        /\ answer.limit >= 1
        /\ answer.offset >= 0

====
